---- MODULE Spec2Model ----
(***************************************************************************)
(* Model of line-transcriber/src/index.ts: the POST /webhook handler, the  *)
(* signature check, the per-event handler handleEvent and replyText.       *)
(*                                                                         *)
(* One webhook request is followed from its arrival to its response and to *)
(* the settling of every handleEvent promise it started.  Each awaited     *)
(* outbound call of a handler is one suspension point: the call is issued  *)
(* by the step that reaches it and completed by a later step that draws    *)
(* the outcome.  Promise reactions run as microtasks, before any further   *)
(* I/O completion, so the settling of Promise.all and the response that    *)
(* follows it belong to the step that settles the deciding handler.        *)
(* Promise.all cancels nothing: the handlers still in flight when the      *)
(* response goes out keep running, as JavaScript promises do.              *)
(***************************************************************************)
EXTENDS Naturals, Sequences, FiniteSets, TLC

VARIABLES
    secret,      \* env.LINE_CHANNEL_SECRET ("" when unset or empty)
    pc,          \* position of the /webhook handler
    bodyText,    \* the raw request body
    header,      \* the x-line-signature header of the request
    valid,       \* how the awaited validateSignature call ended
    parsed,      \* whether JSON.parse(bodyText) has been evaluated
    events,      \* body.events || []
    invoked,     \* number of handleEvent calls made by events.map
    h,           \* h[i]: the promise of handleEvent(events[i])
    calls,       \* calls[i]: outbound calls issued by handler i, in order
    outs,        \* outs[i]: outcomes of the completed calls of handler i
    response,    \* the HTTP response of the request
    past         \* the deliveries already handled: their number, and per
                 \* replyToken the reply calls made and the handlers that
                 \* came to their reply step

vars == <<secret, pc, bodyText, header, valid, parsed, events, invoked, h, calls, outs, response, past>>

(***************************************************************************)
(* Bounds and input sets.                                                  *)
(***************************************************************************)
MaxEvents == 2

\* how many times the platform delivers a webhook
MaxDeliveries == 2

Tokens == {"t1", "t2"}

Secrets == {"", "s1", "s2"}

NoResponse == [status |-> 0, text |-> ""]

\* Events as the platform's JSON delivers them.  mtype "absent" is an event
\* without a message field; source "absent" is an event without a source.
EvNoMessage == [mtype |-> "absent", mid |-> "",   source |-> "u1",     replyToken |-> "t1"]
EvText      == [mtype |-> "text",   mid |-> "m0", source |-> "u1",     replyToken |-> "t2"]
EvAudio     == [mtype |-> "audio",  mid |-> "m1", source |-> "u1",     replyToken |-> "t1"]
EvVideo     == [mtype |-> "video",  mid |-> "m2", source |-> "u2",     replyToken |-> "t2"]
EvNoSource  == [mtype |-> "audio",  mid |-> "m3", source |-> "absent", replyToken |-> "t2"]

EventSet == {EvNoMessage, EvText, EvAudio, EvVideo, EvNoSource}

EventSeqs == UNION {[1..n -> EventSet] : n \in 0..MaxEvents}

\* A request body, given by what JSON.parse makes of its text: json is FALSE
\* for a text that is not JSON, hasEvents is FALSE for an object without an
\* events field.
Bodies ==
    {[json |-> FALSE, hasEvents |-> FALSE, events |-> <<>>],
     [json |-> TRUE,  hasEvents |-> FALSE, events |-> <<>>]}
    \cup {[json |-> TRUE, hasEvents |-> TRUE, events |-> es] : es \in EventSeqs}

(***************************************************************************)
(* validateSignature.                                                      *)
(***************************************************************************)
\* crypto.subtle.sign("HMAC", key, bodyData): the digest as an abstract
\* injective function of the key and the body.
Hmac(key, body) == <<key, body>>

\* btoa(String.fromCharCode(...new Uint8Array(sig))): injective on digests.
Base64(sig) == <<"b64">> \o sig

\* crypto.subtle.importKey("raw", keyData, {name: "HMAC", ...}) rejects with
\* a DataError when the key data has length zero.
ImportKeyThrows(key) == key = ""

expectedSignature(sec, body) == Base64(Hmac(sec, body))

\* the value validateSignature resolves to, when it does not reject
validateSignature(sec, body, sig) == expectedSignature(sec, body) = sig

\* c.req.header("x-line-signature") || ""
HeaderOrEmpty(hd) == IF hd.present THEN hd.value ELSE <<>>

\* the keys whose signatures requests arrive with
SigningKeys == {"", "s1"}

\* the headers a request with this body can carry: none, an empty one, a
\* malformed one, and the signatures of this body and of another body
Headers(body) ==
    {[present |-> FALSE, value |-> <<>>],
     [present |-> TRUE,  value |-> <<>>],
     [present |-> TRUE,  value |-> <<"b64", "s1">>]}
    \cup {[present |-> TRUE, value |-> expectedSignature(s, b)] :
             s \in SigningKeys,
             b \in {body, [json |-> TRUE, hasEvents |-> FALSE, events |-> <<>>]}}

(***************************************************************************)
(* Responses.                                                              *)
(***************************************************************************)
Resp401 == [status |-> 401, text |-> "Invalid signature"]
Resp200 == [status |-> 200, text |-> "OK"]
\* an exception escaping the route handler: the framework's error response
Resp500 == [status |-> 500, text |-> "Internal Server Error"]

Init ==
    /\ secret \in Secrets
    /\ pc = "idle"
    /\ bodyText = [json |-> FALSE, hasEvents |-> FALSE, events |-> <<>>]
    /\ header = [present |-> FALSE, value |-> <<>>]
    /\ valid = "none"
    /\ parsed = FALSE
    /\ events = <<>>
    /\ invoked = 0
    /\ h = <<>>
    /\ calls = <<>>
    /\ outs = <<>>
    /\ response = NoResponse
    /\ past = [n |-> 0, replies |-> [t \in Tokens |-> 0], reached |-> [t \in Tokens |-> 0]]

\* lines 6-9: the request arrives; its body text and signature header are read
Receive ==
    /\ pc = "idle"
    /\ \E b \in Bodies : \E hd \in Headers(b) :
          /\ bodyText' = b
          /\ header' = hd
    /\ pc' = "validate"
    /\ UNCHANGED <<secret, valid, parsed, events, invoked, h, calls, outs, response, past>>

\* lines 11-18: validateSignature and the 401 answer.  A rejection of the
\* awaited call throws out of the route handler.
Validate ==
    /\ pc = "validate"
    /\ IF ImportKeyThrows(secret)
       THEN /\ valid' = "threw"
            /\ response' = Resp500
            /\ pc' = "done"
       ELSE IF ~validateSignature(secret, bodyText, HeaderOrEmpty(header))
       THEN /\ valid' = "false"
            /\ response' = Resp401
            /\ pc' = "done"
       ELSE /\ valid' = "true"
            /\ response' = response
            /\ pc' = "parse"
    /\ UNCHANGED <<secret, bodyText, header, parsed, events, invoked, h, calls, outs, past>>

(***************************************************************************)
(* replyText and the pieces of handleEvent.                                *)
(***************************************************************************)
Call(api, to, file, messages) ==
    [api |-> api, to |-> to, file |-> file, messages |-> messages]

\* lines 100-112: the reply POST, one {type: "text", text} per message
replyText(replyToken, messages) ==
    Call("reply", replyToken, <<>>,
         [k \in 1..Len(messages) |-> [type |-> "text", text |-> messages[k]]])

\* lines 64-73: the loading-animation POST with chatId = event.source.userId
loadingCall(ev) == Call("loading", ev.source, <<>>, <<>>)

\* lines 75-78: the content GET of the message's id
contentCall(ev) == Call("content", ev.mid, <<>>, <<>>)

\* lines 81-86 with a blob kept from another event instead of the one fetched
sttCallKeptBlob(mediaBlob) == Call("stt", "scribe_v1", <<"media", "m1">>, <<>>)

\* lines 81-86: client.speechToText.convert({file: mediaBlob, ...})
sttCall(mediaBlob) == Call("stt", "scribe_v1", mediaBlob, <<>>)

\* line 57 without the test of message.type
UnsupportedNoTypeTest(ev) == ev.mtype = "absent"

\* line 57: !message || !["audio", "video"].includes(message.type)
Unsupported(ev) == ev.mtype \notin {"audio", "video"}

Instruction == "Please send an audio or video message."
Placeholder == "Could not transcribe the message."

\* line 88 without the fallback
transcriptionNoFallback(result) == result.text

\* line 88: result.text || "Could not transcribe the message."
transcription(result) == IF result.text = "" THEN Placeholder ELSE result.text

\* line 89
languageCode(result) == result.language_code

\* line 91 with the two values swapped
ReplyLineSwapped(result) == "[" \o transcription(result) \o "]: " \o languageCode(result)

\* line 91: `[${languageCode}]: ${transcription}`
ReplyLine(result) == "[" \o languageCode(result) \o "]: " \o transcription(result)

NoResult == [text |-> "", language_code |-> ""]

\* what the transcription service can answer with a success
SttResults == {[text |-> "hello", language_code |-> "en"],
               [text |-> "",      language_code |-> "ja"]}

\* the body of the error response of the transcription service
SttErrorText == "rate limited"

\* the body the content endpoint returns: the media of the message, or the
\* body of its error response
MediaOf(mid) == <<"media", mid>>
ErrorBody == <<"error", "401">>

Handler(p, blob, result) == [pc |-> p, mediaBlob |-> blob, result |-> result]

\* handleEvent without the return of line 58: the instruction is sent and the
\* pipeline runs on
StartPcFallThrough(ev) == IF ev.source = "absent" THEN "rejected" ELSE "loading"

\* a handler that skips the reply of an event whose replyToken was already
\* replied to in an earlier delivery
StartCallsDedup(ev) ==
    IF ev.mtype \notin {"audio", "video"}
    THEN (IF past.replies[ev.replyToken] > 0 THEN <<>>
          ELSE <<replyText(ev.replyToken, <<"Please send an audio or video message.">>)>>)
    ELSE IF ev.source = "absent" THEN <<>>
    ELSE <<loadingCall(ev)>>

\* lines 52-73: handleEvent from its call to its first suspension.  An event
\* without source makes event.source.userId throw before fetch is called.
StartPc(ev) ==
    IF Unsupported(ev) THEN "reply"
    ELSE IF ev.source = "absent" THEN "rejected"
    ELSE "loading"

StartCalls(ev) ==
    IF Unsupported(ev) THEN <<replyText(ev.replyToken, <<Instruction>>)>>
    ELSE IF ev.source = "absent" THEN <<>>
    ELSE <<loadingCall(ev)>>

(***************************************************************************)
(* Promise.all over the handlers and the end of the route handler.         *)
(***************************************************************************)
\* lines 23-25: Promise.all rejects with the first rejection and fulfils
\* when every promise has fulfilled
\* a barrier that counts fulfilments only and never sees a rejection
AllRejectedNever(hs) == FALSE

AllRejected(hs) == \E i \in DOMAIN hs : hs[i].pc = "rejected"
\* a barrier that never fires for an empty list of promises
AllFulfilledNonEmpty(hs) == hs # <<>> /\ \A i \in DOMAIN hs : hs[i].pc = "fulfilled"

AllFulfilled(hs) == \A i \in DOMAIN hs : hs[i].pc = "fulfilled"

\* lines 20-25: JSON.parse, body.events || [], events.map(handleEvent)
Dispatch ==
    /\ pc = "parse"
    /\ parsed' = TRUE
    /\ IF ~bodyText.json
       THEN /\ response' = Resp500
            /\ pc' = "done"
            /\ UNCHANGED <<events, invoked, h, calls, outs>>
       ELSE /\ events' = (IF bodyText.hasEvents THEN bodyText.events ELSE <<>>)
            /\ invoked' = Len(events')
            /\ h' = [i \in 1..Len(events') |-> Handler(StartPc(events'[i]), <<>>, NoResult)]
            /\ calls' = [i \in 1..Len(events') |-> StartCalls(events'[i])]
            /\ outs' = [i \in 1..Len(events') |-> <<>>]
            /\ response' = (IF AllRejected(h') THEN Resp500
                            ELSE IF AllFulfilled(h') THEN Resp200
                            ELSE response)
            /\ pc' = (IF response' = NoResponse THEN "waiting" ELSE "done")
    /\ UNCHANGED <<secret, bodyText, header, valid, past>>

\* the route handler after a step that left the handlers as hs: while it
\* awaits Promise.all, a rejection throws out of it and the fulfilment of
\* all lets it answer OK; once it has answered, nothing is left to run
Finish(hs) ==
    /\ response' = (IF pc # "waiting" THEN response
                    ELSE IF AllRejected(hs) THEN Resp500
                    ELSE IF AllFulfilled(hs) THEN Resp200
                    ELSE response)
    /\ pc' = (IF pc = "waiting" /\ response' # NoResponse THEN "done" ELSE pc)

\* a fan-out that aborts the handlers still in flight when one rejects
StepFailFast(i, hnew, cs, o) ==
    /\ h' = [j \in DOMAIN h |->
                IF j = i THEN hnew
                ELSE IF hnew.pc = "rejected" /\ h[j].pc \notin {"fulfilled", "rejected"}
                THEN [h[j] EXCEPT !.pc = "rejected"]
                ELSE h[j]]
    /\ calls' = [calls EXCEPT ![i] = @ \o cs]
    /\ outs' = [outs EXCEPT ![i] = Append(@, o)]
    /\ Finish(h')
    /\ UNCHANGED <<secret, bodyText, header, valid, parsed, events, invoked, past>>

\* handler i resumes at its suspension point and runs to the next one: it
\* moves to hnew, issues the calls cs and records the outcome o it resumed
\* with.  Nothing of another handler is touched.
Step(i, hnew, cs, o) ==
    /\ h' = [h EXCEPT ![i] = hnew]
    /\ calls' = [calls EXCEPT ![i] = @ \o cs]
    /\ outs' = [outs EXCEPT ![i] = Append(@, o)]
    /\ Finish(h')
    /\ UNCHANGED <<secret, bodyText, header, valid, parsed, events, invoked, past>>

\* lines 64-76: the loading fetch completes; its response is not looked at
LoadingDone(i) ==
    /\ h[i].pc = "loading"
    /\ \E o \in {"ok", "http_error", "network_error"} :
          IF o = "network_error"
          THEN Step(i, Handler("rejected", <<>>, NoResult), <<>>, o)
          ELSE Step(i, Handler("content", <<>>, NoResult), <<contentCall(events[i])>>, o)

\* lines 76-79: the content fetch completes; mediaResponse.ok is not looked at
ContentDone(i) ==
    /\ h[i].pc = "content"
    /\ \E o \in {"ok", "http_error", "network_error"} :
          IF o = "network_error"
          THEN Step(i, Handler("rejected", <<>>, NoResult), <<>>, o)
          ELSE Step(i, Handler("body", IF o = "ok" THEN MediaOf(events[i].mid) ELSE ErrorBody,
                               NoResult), <<>>, o)

\* lines 79-86: mediaResponse.arrayBuffer() completes and the blob is
\* submitted to the transcription service
BodyDone(i) ==
    /\ h[i].pc = "body"
    /\ \E o \in {"ok", "network_error"} :
          IF o = "network_error"
          THEN Step(i, Handler("rejected", <<>>, NoResult), <<>>, o)
          ELSE Step(i, Handler("stt", h[i].mediaBlob, NoResult), <<sttCall(h[i].mediaBlob)>>, o)

\* lines 82-92: convert() completes.  The client throws on a non-success
\* response and on a network failure; nothing in handleEvent catches it.
SttDone(i) ==
    /\ h[i].pc = "stt"
    /\ \/ \E r \in SttResults :
             Step(i, Handler("reply", h[i].mediaBlob, r),
                  <<replyText(events[i].replyToken, <<ReplyLine(r)>>)>>, "ok")
       \/ \E o \in {"http_error", "network_error"} :
             Step(i, Handler("rejected", h[i].mediaBlob, NoResult), <<>>, o)

\* lines 105-112, 58, 90: the reply fetch completes and its Response (of any
\* status) is what handleEvent resolves to
ReplyDone(i) ==
    /\ h[i].pc = "reply"
    /\ \E o \in {"ok", "http_error", "network_error"} :
          Step(i, Handler(IF o = "network_error" THEN "rejected" ELSE "fulfilled",
                          h[i].mediaBlob, h[i].result), <<>>, o)

\* any resumption of handler i
Advance(i) ==
    LoadingDone(i) \/ ContentDone(i) \/ BodyDone(i) \/ SttDone(i) \/ ReplyDone(i)

Next ==
    \/ Receive
    \/ Validate
    \/ Dispatch
    \/ \E i \in DOMAIN h : LoadingDone(i)
    \/ \E i \in DOMAIN h : ContentDone(i)
    \/ \E i \in DOMAIN h : BodyDone(i)
    \/ \E i \in DOMAIN h : SttDone(i)
    \/ \E i \in DOMAIN h : ReplyDone(i)

Spec == Init /\ [][Next]_vars

\* the awaited call of handler i completes and the handler resumes
Completes(i) == i \in DOMAIN h /\ Advance(i)

\* the envelopes followed to their response: one event of each way a
\* handler can start (an immediate reply, the pipeline, a throw before the
\* first call), in every combination
FairEvents == {EvText, EvAudio, EvNoSource}

FairBodies ==
    {[json |-> FALSE, hasEvents |-> FALSE, events |-> <<>>],
     [json |-> TRUE,  hasEvents |-> FALSE, events |-> <<>>]}
    \cup {[json |-> TRUE, hasEvents |-> TRUE, events |-> es] :
             es \in UNION {[1..n -> FairEvents] : n \in 0..MaxEvents}}

\* lines 6-9 for a request out of FairBodies
ReceiveFair ==
    /\ pc = "idle"
    /\ \E b \in FairBodies : \E hd \in Headers(b) :
          /\ bodyText' = b
          /\ header' = hd
    /\ pc' = "validate"
    /\ UNCHANGED <<secret, valid, parsed, events, invoked, h, calls, outs, response, past>>

NextFair ==
    \/ ReceiveFair
    \/ Validate
    \/ Dispatch
    \/ \E i \in DOMAIN h : Advance(i)

\* The runtime resumes the route handler after each of its awaits, and every
\* outbound call that was issued eventually resolves or rejects.
FairSpec ==
    /\ Init
    /\ [][NextFair]_vars
    /\ WF_vars(Validate)
    /\ WF_vars(Dispatch)
    /\ \A i \in 1..MaxEvents : WF_vars(Completes(i))

(***************************************************************************)
(* Repeated deliveries.  The platform can deliver the same event again, in *)
(* a later webhook request or twice in one envelope.  The route handler    *)
(* starts every request afresh; nothing in the program outlives a request. *)
(* The deliveries are taken one after another, the next when the handlers  *)
(* of the one before have settled: handlers share nothing, so deliveries   *)
(* that overlap in time do the same calls.                                 *)
(***************************************************************************)
\* the envelopes of the repeated deliveries: an unsupported and a media
\* event, alone, twice in one envelope, or together
DeliveryBodies ==
    {[json |-> TRUE, hasEvents |-> TRUE, events |-> es] :
        es \in {<<EvText>>, <<EvAudio>>, <<EvText, EvText>>, <<EvAudio, EvAudio>>,
                <<EvText, EvVideo>>}}

\* the reply calls of the current delivery that carry replyToken t
ReplyCalls(t) ==
    {ik \in UNION {{i} \X (1..Len(calls[i])) : i \in DOMAIN calls} :
        calls[ik[1]][ik[2]].api = "reply" /\ calls[ik[1]][ik[2]].to = t}

\* handler i has come to its reply step: at once for an event that is not
\* audio or video, after a successful transcription for one that is
ReachedReply(i) ==
    \/ events[i].mtype \notin {"audio", "video"}
    \/ Len(outs[i]) >= 4 /\ outs[i][4] = "ok"

\* the handlers of the current delivery with replyToken t at their reply step
Reached(t) == {i \in DOMAIN h : events[i].replyToken = t /\ ReachedReply(i)}

\* lines 6-9 for a delivery out of DeliveryBodies
ReceiveDelivery ==
    /\ pc = "idle"
    /\ \E b \in DeliveryBodies : \E hd \in Headers(b) :
          /\ bodyText' = b
          /\ header' = hd
    /\ pc' = "validate"
    /\ UNCHANGED <<secret, valid, parsed, events, invoked, h, calls, outs, response, past>>

\* line 6: the request is over and the next delivery starts the route
\* handler afresh; what the finished delivery did is counted into past
Redeliver ==
    /\ pc = "done"
    /\ \A i \in DOMAIN h : h[i].pc \in {"fulfilled", "rejected"}
    /\ past.n + 1 < MaxDeliveries
    /\ past' = [n |-> past.n + 1,
                replies |-> [t \in Tokens |-> past.replies[t] + Cardinality(ReplyCalls(t))],
                reached |-> [t \in Tokens |-> past.reached[t] + Cardinality(Reached(t))]]
    /\ pc' = "idle"
    /\ bodyText' = [json |-> FALSE, hasEvents |-> FALSE, events |-> <<>>]
    /\ header' = [present |-> FALSE, value |-> <<>>]
    /\ valid' = "none"
    /\ parsed' = FALSE
    /\ events' = <<>>
    /\ invoked' = 0
    /\ h' = <<>>
    /\ calls' = <<>>
    /\ outs' = <<>>
    /\ response' = NoResponse
    /\ UNCHANGED secret

NextDeliveries ==
    \/ ReceiveDelivery
    \/ Validate
    \/ Dispatch
    \/ \E i \in DOMAIN h : Advance(i)
    \/ Redeliver

SpecDeliveries == Init /\ [][NextDeliveries]_vars
(***************************************************************************)
(* Properties.                                                             *)
(***************************************************************************)
Settled(i) == h[i].pc \in {"fulfilled", "rejected"}

\* the calls of handler i to one endpoint
CallsTo(i, api) == {k \in 1..Len(calls[i]) : calls[i][k].api = api}

\* the provided signature differs from the expected one
Mismatch == HeaderOrEmpty(header) # expectedSignature(secret, bodyText)

\* C1: a request whose signature does not equal the expected signature of
\* its body is answered 401, its body is never parsed, handleEvent is never
\* invoked and no outbound call is made.
C1_InvalidSignatureRejected ==
    (pc # "idle" /\ Mismatch) =>
        /\ ~parsed
        /\ invoked = 0
        /\ \A i \in DOMAIN calls : calls[i] = <<>>
        /\ pc = "done" => response = Resp401

\* C2: a request ends with 401 when its signature is invalid and with
\* 200 "OK" otherwise, whatever the handlers do; never with anything else.
\* (Stated for a secret the key import accepts: the other case is C9's.)
C2_OnlyTwoOutcomes ==
    (pc = "done" /\ ~ImportKeyThrows(secret)) =>
        response = (IF Mismatch THEN Resp401 ELSE Resp200)

\* C3: a verified envelope of N events makes N handleEvent calls, and the
\* response is sent only when all N handlers have settled.
C3_RespondsAfterAllSettled ==
    /\ parsed /\ bodyText.json => invoked = Len(events) /\ Len(h) = Len(events)
    /\ (parsed /\ response # NoResponse) => \A i \in DOMAIN h : Settled(i)

\* C4: over every path of handleEvent, replyText is called at most once
\* for the event.
C4_AtMostOneReply ==
    \A i \in DOMAIN h : Cardinality(CallsTo(i, "reply")) <= 1

\* a handler that ran the whole pipeline and settled after one reply
C4_Witness ==
    \E i \in DOMAIN h :
        /\ Settled(i)
        /\ ~Unsupported(events[i])
        /\ Cardinality(CallsTo(i, "reply")) = 1
        /\ Len(calls[i]) = 4

\* every call of handler i that has completed so far succeeded
AllOk(i) == \A k \in 1..Len(outs[i]) : outs[i][k] = "ok"

\* the event of handler i is an audio or video message
IsMedia(i) == events[i].mtype \in {"audio", "video"}

C6_UnsupportedGetsInstruction ==
    \A i \in DOMAIN h :
        events[i].mtype \notin {"audio", "video"} =>
            calls[i] = <<[api |-> "reply", to |-> events[i].replyToken, file |-> <<>>,
                          messages |-> <<[type |-> "text",
                                          text |-> "Please send an audio or video message."]>>]>>

\* a text event and an event without message, both replied to
C6_Witness ==
    /\ Len(h) = 2
    /\ events[1].mtype = "text" /\ events[2].mtype = "absent"
    /\ h[1].pc = "fulfilled" /\ h[2].pc = "fulfilled"

\* handler i has had a non-success response from the transcription service
SttFailed(i) == IsMedia(i) /\ Len(outs[i]) >= 4 /\ outs[i][4] = "http_error"

\* s contains the error text of the transcription service
HasErrorText(s) ==
    \E a \in {"", "[en]: ", "[ja]: ", "Error: "} : \E b \in {"", "."} :
        s = a \o SttErrorText \o b

\* C7: after a non-success response of the transcription service the
\* handler has sent a reply that embeds the service's error text and not the
\* placeholder.
C7_SttErrorReplied ==
    \A i \in DOMAIN h :
        SttFailed(i) =>
            \E k \in CallsTo(i, "reply") :
                /\ Len(calls[i][k].messages) = 1
                /\ HasErrorText(calls[i][k].messages[1].text)

\* C8: an audio or video event whose loading, content and transcription
\* calls all succeed with a non-empty text makes exactly one reply call,
\* with the event's replyToken and the one text "[<languageCode>]: <text>".
C8_TranscriptReplied ==
    \A i \in DOMAIN h :
        (IsMedia(i) /\ Len(outs[i]) >= 4 /\ AllOk(i) /\ h[i].result.text # "") =>
            /\ CallsTo(i, "reply") = {4}
            /\ calls[i][4].to = events[i].replyToken
            /\ calls[i][4].messages =
                  <<[type |-> "text",
                     text |-> "[" \o h[i].result.language_code \o "]: " \o h[i].result.text]>>
            /\ h[i].result = [text |-> "hello", language_code |-> "en"] =>
                  calls[i][4].messages[1].text = "[en]: hello"

\* a video event transcribed as "hello" in "en" and replied to
C8_Witness ==
    \E i \in DOMAIN h :
        /\ events[i].mtype = "video"
        /\ h[i].pc = "fulfilled" /\ AllOk(i)
        /\ h[i].result = [text |-> "hello", language_code |-> "en"]

\* C9: validateSignature never fails with an exception: it returns a
\* boolean for every secret, body and signature, false on any mismatch, and
\* the caller then answers 401.
C9_ValidateNeverThrows ==
    /\ valid \in {"none", "true", "false"}
    /\ (valid # "none" /\ Mismatch) => (valid = "false" /\ response = Resp401)

\* C10: validateSignature returns true if and only if the provided
\* signature equals base64(HMAC-SHA256(secret, body)).
C10_TrueIffExpected ==
    valid # "none" => (valid = "true" <=> ~Mismatch)

\* C11: a successful transcription response whose text is empty or absent
\* yields a reply that holds the placeholder "Could not transcribe the
\* message." verbatim in the place of the transcript.
C11_EmptyTextGetsPlaceholder ==
    \A i \in DOMAIN h :
        (IsMedia(i) /\ Len(outs[i]) >= 4 /\ outs[i][4] = "ok" /\ h[i].result.text = "") =>
            /\ CallsTo(i, "reply") = {4}
            /\ calls[i][4].to = events[i].replyToken
            /\ calls[i][4].messages =
                  <<[type |-> "text",
                     text |-> "[" \o h[i].result.language_code \o "]: " \o
                              "Could not transcribe the message."]>>

\* an audio event whose transcription came back empty, replied to
C11_Witness ==
    \E i \in DOMAIN h :
        /\ events[i].mtype = "audio"
        /\ h[i].pc = "fulfilled"
        /\ outs[i][4] = "ok"
        /\ h[i].result = [text |-> "", language_code |-> "ja"]
        /\ calls[i][4].messages[1].text = "[ja]: Could not transcribe the message."

\* C12: every handling of an event ends in a reply attempt: whatever its
\* outbound calls answer, a handler that has stopped has called replyText
\* exactly once, and no call of the event is made twice.  (Stated for events
\* that carry a source, so that it is an outcome of a call that decides.)
C12_EndsInReplyAttempt ==
    \A i \in DOMAIN h :
        events[i].source # "absent" =>
            /\ Settled(i) => Cardinality(CallsTo(i, "reply")) = 1
            /\ \A a \in {"loading", "content", "stt", "reply"} :
                  Cardinality(CallsTo(i, a)) <= 1

\* the position of the reply call's outcome among the outcomes of handler i
ReplyIdx(i) == IF IsMedia(i) THEN 5 ELSE 1

\* the reply POST of handler i has failed, by an error response or by a
\* rejection of the request
ReplyFailed(i) ==
    /\ Len(outs[i]) >= ReplyIdx(i)
    /\ outs[i][ReplyIdx(i)] \in {"http_error", "network_error"}

\* every call of handler i before its reply succeeded
OkBeforeReply(i) ==
    /\ ~(IsMedia(i) /\ events[i].source = "absent")
    /\ \A k \in 1..Len(outs[i]) : k # ReplyIdx(i) => outs[i][k] = "ok"

\* C13: a failure of the final reply POST (an error response or a rejection
\* of the request) is not escalated: with nothing else failing, the request
\* still completes with 200 "OK", and no second reply is attempted.
C13_ReplyFailureNotEscalated ==
    ((\E i \in DOMAIN h : ReplyFailed(i)) /\ (\A i \in DOMAIN h : Settled(i) /\ OkBeforeReply(i))) =>
        /\ response = Resp200
        /\ \A i \in DOMAIN h : Cardinality(CallsTo(i, "reply")) = 1

\* the loading-indicator call of handler i has failed: its request could
\* not be built, or it was answered by an error or rejected
LoadingFailed(i) ==
    /\ IsMedia(i)
    /\ \/ events[i].source = "absent"
       \/ Len(outs[i]) >= 1 /\ outs[i][1] \in {"http_error", "network_error"}

\* C14: the loading-indicator call is best-effort: after any failure of it
\* the pipeline goes on, the content fetch is made for the event and the
\* handler has not failed by it.
C14_LoadingBestEffort ==
    \A i \in DOMAIN h :
        LoadingFailed(i) =>
            /\ Cardinality(CallsTo(i, "content")) = 1
            /\ Len(outs[i]) <= 1 => h[i].pc # "rejected"

\* the content fetch of handler i was rejected at network level or answered
\* with an authentication error
ContentFailed(i) ==
    IsMedia(i) /\ Len(outs[i]) >= 2 /\ outs[i][2] \in {"http_error", "network_error"}

\* C15: a network or authentication failure of the content fetch is
\* propagated with no fallback content: the transcription service is not
\* called for the event and no reply is sent for it.
C15_ContentFailurePropagated ==
    \A i \in DOMAIN h :
        ContentFailed(i) =>
            /\ CallsTo(i, "stt") = {}
            /\ CallsTo(i, "reply") = {}

\* handler i has a call in flight or is about to resume
InFlight(i) == ~Settled(i)

\* C16: no event's handling blocks another's: while a call of one event
\* stays uncompleted, every other handler can go on at its own awaited call,
\* and with the others arrived at their reply attempts the webhook response
\* is still pending.
C16_NoBlockingResponsePending ==
    \A j \in DOMAIN h :
        InFlight(j) =>
            /\ \A i \in DOMAIN h : (i # j /\ InFlight(i)) => ENABLED Advance(i)
            /\ (\A i \in DOMAIN h : i # j => CallsTo(i, "reply") # {}) =>
                  response = NoResponse

\* the endpoints called by handler i, in the order of the calls
ApiOrder(i) == [k \in 1..Len(calls[i]) |-> calls[i][k].api]

\* C17: the calls of one audio or video event are made in the order loading,
\* content, transcription, reply, each at most once and each only when the
\* one before has completed; the content fetch asks for the event's own
\* message and the blob submitted to transcription is the body that fetch
\* returned.
C17_PipelineInOrder ==
    \A i \in DOMAIN h :
        IsMedia(i) =>
            /\ Len(calls[i]) <= 4
            /\ ApiOrder(i) = SubSeq(<<"loading", "content", "stt", "reply">>, 1, Len(calls[i]))
            /\ Len(calls[i]) >= 2 => (Len(outs[i]) >= 1 /\ calls[i][2].to = events[i].mid)
            /\ Len(calls[i]) >= 3 =>
                  /\ Len(outs[i]) >= 3
                  /\ calls[i][3].file = (IF outs[i][2] = "ok"
                                         THEN <<"media", events[i].mid>>
                                         ELSE <<"error", "401">>)
            /\ Len(calls[i]) >= 4 => Len(outs[i]) >= 4

\* two media events of one envelope, each transcribed from its own blob
C17_Witness ==
    /\ Len(h) = 2
    /\ h[1].pc = "fulfilled" /\ h[2].pc = "fulfilled"
    /\ IsMedia(1) /\ IsMedia(2)
    /\ calls[1][3].file = <<"media", "m1">>
    /\ calls[2][3].file = <<"media", "m2">>

\* C18: a verified request whose JSON body has no events field, or an empty
\* events list, is answered 200 "OK" with no handleEvent call and no
\* outbound call.
C18_NoEventsIsOk ==
    (parsed /\ bodyText.json /\ (~bodyText.hasEvents \/ bodyText.events = <<>>)) =>
        /\ invoked = 0
        /\ h = <<>>
        /\ calls = <<>>
        /\ pc = "done"
        /\ response = Resp200

\* a verified body without events field, answered
C18_Witness ==
    /\ valid = "true"
    /\ parsed /\ bodyText.json /\ ~bodyText.hasEvents
    /\ response = Resp200

\* C19: events are not deduplicated: over all deliveries, the reply calls
\* that carry a replyToken are as many as the handlers of events with that
\* token that came to their reply step, and each such handler makes its own
\* reply call whatever earlier deliveries did.
C19_NoDeduplication ==
    /\ \A t \in Tokens :
          past.replies[t] + Cardinality(ReplyCalls(t)) =
              past.reached[t] + Cardinality(Reached(t))
    /\ \A i \in DOMAIN h :
          ReachedReply(i) =>
              \E k \in CallsTo(i, "reply") : calls[i][k].to = events[i].replyToken

\* an event replied to in an earlier delivery is delivered again, twice in
\* one envelope, and both of its handlers have made their reply
C19_Witness ==
    /\ past.n >= 1
    /\ past.replies["t2"] >= 1
    /\ Len(h) = 2
    /\ events[1] = EvText /\ events[2] = EvText
    /\ h[1].pc = "fulfilled" /\ h[2].pc = "fulfilled"
    /\ Cardinality(ReplyCalls("t2")) = 2

====
